---- MODULE Spec2Model ----
(***************************************************************************)
(* Local Food Wastage Management dashboard (src/app.py): the four tables   *)
(* of food.db, the sidebar filter builder and the filtered browse query,   *)
(* the report catalog (reports 3 and 10) and the four CRUD tabs.           *)
(*                                                                         *)
(* A script run is a sequence of SQL statements on the one connection all  *)
(* sessions share, with no lock around the run: each statement is one      *)
(* action, and the statements of other sessions may run in between.        *)
(*                                                                         *)
(* Text that the code formats into a selectbox label and parses back       *)
(* (Provider Name and Type, Food_Name) is a sequence of one-character      *)
(* strings; text that is only compared (City, Location, Food_Type,         *)
(* Meal_Type, Status) is a TLA+ string.                                    *)
(***************************************************************************)
EXTENDS Integers, Sequences, FiniteSets, Bags, TLC

\* The four tables of food.db, the declaration of their identity columns
\* (schema) and SQLite's sqlite_sequence (seq); per session, the statement its
\* script run has reached (pc), the values the run holds (run) and the data
\* frames it renders (cards, filtered, df_q); last: the statement executed
\* last and the message it rendered.
VARIABLES Providers, Receivers, Food_Listings, Claims, schema, seq, pc, run,
          cards, filtered, df_q, last

vars == <<Providers, Receivers, Food_Listings, Claims, schema, seq, pc, run,
          cards, filtered, df_q, last>>

tables == <<Providers, Receivers, Food_Listings, Claims>>

\* What a run computes from the store and renders
frames == <<cards, filtered, df_q>>

(***************************************************************************)
(* Bounds of the model.                                                    *)
(***************************************************************************)
MaxProviders == 2
MaxFoods == 2
NumStatus == 7
MaxPerStatus == 2

\* Browser sessions whose script runs are followed statement by statement
Sessions == {"s1", "s2"}

(***************************************************************************)
(* Python string operations used on the selectbox labels.                  *)
(***************************************************************************)
Digits == <<"0", "1", "2", "3", "4", "5", "6", "7", "8", "9">>

IsDigit(c) == \E i \in 1..Len(Digits) : Digits[i] = c

DigitVal(c) == (CHOOSE i \in 1..Len(Digits) : Digits[i] = c) - 1

\* str(n) of a non-negative integer, as the f-string formats an identity
RECURSIVE Str(_)
Str(n) == IF n < 10 THEN <<Digits[n + 1]>>
          ELSE Str(n \div 10) \o <<Digits[(n % 10) + 1]>>

\* s.split(c): the pieces of s between the occurrences of c
RECURSIVE Split(_, _)
Split(s, c) ==
    IF \A i \in 1..Len(s) : s[i] # c THEN <<s>>
    ELSE LET i == CHOOSE k \in 1..Len(s) :
                      s[k] = c /\ \A j \in 1..(k - 1) : s[j] # c
         IN  <<SubSeq(s, 1, i - 1)>> \o Split(SubSeq(s, i + 1, Len(s)), c)

\* s.strip() for the blank
RECURSIVE Strip(_)
Strip(s) == IF s = <<>> THEN s
            ELSE IF Head(s) = " " THEN Strip(Tail(s))
            ELSE IF s[Len(s)] = " " THEN Strip(SubSeq(s, 1, Len(s) - 1))
            ELSE s

RECURSIVE DecVal(_)
DecVal(s) == IF s = <<>> THEN 0
             ELSE 10 * DecVal(SubSeq(s, 1, Len(s) - 1)) + DigitVal(s[Len(s)])

\* int(s): surrounding blanks are dropped, then decimal digits are required;
\* anything else raises ValueError (sign and underscore are not in the alphabet
\* of the inputs drawn here)
PyInt(s) ==
    LET t == Strip(s)
    IN  IF t # <<>> /\ \A i \in 1..Len(t) : IsDigit(t[i])
        THEN [raised |-> FALSE, val |-> DecVal(t)]
        ELSE [raised |-> TRUE, val |-> 0]

(***************************************************************************)
(* The store.  food.db is opened, not created, by app.py: how its identity *)
(* columns are declared is not in the source, and the INSERTs of lines 229 *)
(* and 259 name no identity column.  What they store there depends on the  *)
(* declaration:                                                            *)
(*   "rowid"          INTEGER PRIMARY KEY: one more than the largest       *)
(*                    identity in the table;                               *)
(*   "autoincrement"  INTEGER PRIMARY KEY AUTOINCREMENT: one more than the *)
(*                    largest identity the table ever held;                *)
(*   "plain"          a plain INTEGER column (what DataFrame.to_sql        *)
(*                    creates): NULL.                                      *)
(* Every row also has SQLite's own rowid, which the identity column        *)
(* aliases under the first two declarations.                               *)
(***************************************************************************)
Schemas == {"rowid", "autoincrement", "plain"}

\* Python None / SQL NULL
None == -1

Max(S) == CHOOSE x \in S : \A y \in S : y <= x

RowIds(rows) == {r.rowid : r \in rows}

\* The rowid SQLite gives the next row of a table
NewRowId(rows, tname) ==
    IF schema = "autoincrement" THEN Max(RowIds(rows) \cup {seq[tname]}) + 1
    ELSE IF rows = {} THEN 1
    ELSE Max(RowIds(rows)) + 1

\* The value of the identity column of the next row of a table
NewId(rows, tname) == IF schema = "plain" THEN None ELSE NewRowId(rows, tname)

\* sqlite_sequence after an INSERT into the table
NewSeq(rows, tname) ==
    IF schema = "autoincrement" THEN [seq EXCEPT ![tname] = NewRowId(rows, tname)]
    ELSE seq

\* sqlite_sequence of a store that was loaded with these rows
SeqOf(sch, ps, fs) ==
    IF sch = "autoincrement"
    THEN [Providers |-> Max(RowIds(ps) \cup {0}), Food_Listings |-> Max(RowIds(fs) \cup {0})]
    ELSE [Providers |-> 0, Food_Listings |-> 0]

ProviderIds == {p.Provider_ID : p \in Providers} \ {None}

FoodIds == {f.Food_ID : f \in Food_Listings} \ {None}

\* SELECT DISTINCT ... ORDER BY ... (lines 28-31): the values are kept as a
\* set, the order of the options is the order of the values themselves
cities == {p.City : p \in Providers}

provider_types == {p.Type : p \in Providers}

food_types == {f.Food_Type : f \in Food_Listings}

meal_types == {f.Meal_Type : f \in Food_Listings}

(***************************************************************************)
(* Widget option lists and the inputs drawn for the free-text widgets.     *)
(***************************************************************************)
Restaurant == <<"R", "e", "s", "t", "a", "u", "r", "a", "n", "t">>

GroceryStore == <<"G", "r", "o", "c", "e", "r", "y", " ", "S", "t", "o", "r", "e">>

Supermarket == <<"S", "u", "p", "e", "r", "m", "a", "r", "k", "e", "t">>

CateringService == <<"C", "a", "t", "e", "r", "i", "n", "g", " ",
                     "S", "e", "r", "v", "i", "c", "e">>

DefaultProviderTypes == <<Restaurant, GroceryStore, Supermarket, CateringService>>

DefaultFoodTypes == <<"Vegetarian", "Non-Vegetarian", "Vegan">>

DefaultMealTypes == <<"Breakfast", "Lunch", "Dinner", "Snacks">>

\* st.text_input("Name"): empty, a plain name, and a name holding '#' and ','
NameInputs == {<<>>, <<"a">>, <<"#", "2", ",">>}

CityInputs == {"", "X"}

AddressInputs == {""}

ContactInputs == {""}

FoodNameInputs == {<<>>, <<"#", "2">>}

LocationInputs == {"", "X"}

\* st.date_input: dates are day numbers (ISO text sorts as the dates do)
DateInputs == {1}

\* The same widget with min_value=0
QtyInputsFromZero == {0, 1}

\* st.number_input("Quantity", min_value=1, step=1)
QtyInputs == {1}

\* st.number_input("New Quantity", min_value=0, step=1)
NewQtyInputs == {0, 1}

\* st.selectbox(label, xs or defaults): the option the user picks.  Of a
\* default list the model draws the first entry; of the values read from the
\* store it draws any.
Pick(stored, default) == IF stored = {} THEN {default} ELSE stored

\* The button clicked in the rerun, if any
Buttons == {"none", "Add Provider", "Add Food", "Update Quantity", "Delete"}

(***************************************************************************)
(* Selectbox labels (lines 240, 273, 286) and the identity parsed back     *)
(* from the chosen label (lines 243, 274, 287).                            *)
(***************************************************************************)
\* f"{r['Provider_ID']}" of a row of the data frame read from the store.  A
\* column of integers is int64 and formats as "1"; with NULLs among them
\* pandas makes it float64 ("1.0", "nan"); a column of NULLs only holds None.
IdText(id, column) ==
    IF None \notin column THEN Str(id)
    ELSE IF column = {None} THEN <<"N", "o", "n", "e">>
    ELSE IF id = None THEN <<"n", "a", "n">>
    ELSE Str(id) \o <<".", "0">>

ProviderLabel(r) ==
    r.Name \o <<" ", "(", "#">>
           \o IdText(r.Provider_ID, {p.Provider_ID : p \in Providers})
           \o <<",", " ">> \o r.Type \o <<")">>

FoodLabel(r) ==
    <<"#">> \o IdText(r.Food_ID, {f.Food_ID : f \in Food_Listings})
            \o <<" ", "-", " ">> \o r.Food_Name
            \o <<" ", "(", "q", "t", "y", " ">> \o Str(r.Quantity) \o <<")">>

FoodLabel2(r) ==
    <<"#">> \o IdText(r.Food_ID, {f.Food_ID : f \in Food_Listings})
            \o <<" ", "-", " ">> \o r.Food_Name

\* int(prov_row.split("#")[1].split(",")[0])
ParseProviderId(prov_row) == PyInt(Split(Split(prov_row, "#")[2], ",")[1])

\* int(row.split("#")[1].split(" ")[0])
ParseFoodId(row) == PyInt(Split(Split(row, "#")[2], " ")[1])

\* Lines 241-247 with the Type taken from the chosen row itself, without the
\* lookup by the parsed identity
Tab2NoLookup(p) ==
    LET parsed == ParseProviderId(ProviderLabel(p))
    IN  IF parsed.raised
        THEN [raised |-> TRUE, provider_id |-> None, provider_type |-> <<>>]
        ELSE [raised |-> FALSE, provider_id |-> parsed.val, provider_type |-> p.Type]

\* Lines 241-247 for the provider row chosen in the selectbox.  raised: the
\* int() raised ValueError, or .iloc[0] found no row and raised IndexError.
\* (The stores drawn here hold every non-NULL identity once.)
Tab2(p) ==
    LET parsed == ParseProviderId(ProviderLabel(p))
        match  == {q \in Providers : q.Provider_ID = parsed.val}
    IN  IF parsed.raised \/ match = {}
        THEN [raised |-> TRUE, provider_id |-> None, provider_type |-> <<>>]
        ELSE [raised |-> FALSE, provider_id |-> parsed.val,
              provider_type |-> (CHOOSE q \in match : TRUE).Type]

(***************************************************************************)
(* A script run.  Streamlit reruns app.py top to bottom on every widget    *)
(* interaction; at most one button is clicked in a rerun.  pc[s] names the *)
(* statement session s executes next:                                      *)
(*   "idle"    no run (the next run starts at line 28)                     *)
(*   "ptypes"  line 29        "ftypes"  line 30     "mtypes"  line 31      *)
(*   "cards"   lines 57-72    "browse"  lines 33-55 and 74-93              *)
(*   "report"  lines 195-210                                               *)
(*   "tab1"    the INSERT of line 228 (Add Provider clicked)               *)
(*   "tab2"    lines 236-254  "add"     lines 256-265 (Add Food clicked)   *)
(*   "tab3"    lines 267-275  "update"  lines 276-278 (Update clicked)     *)
(*   "tab4"    lines 280-287  "delete"  lines 288-290 (Delete clicked)     *)
(* A tab whose button is not clicked issues no statement of its own.       *)
(***************************************************************************)
\* The values a run holds between its statements; NoRun outside a run
NoRun ==
    [button |-> "none", cities |-> {}, provider_types |-> {}, food_types |-> {},
     meal_types |-> {}, selected |-> None, provider_id |-> None,
     provider_type |-> <<>>, food_id |-> 0]

\* cards before line 61
NoCards == [providers |-> None, receivers |-> None, food_items |-> None,
            claims |-> None]

\* df_q before line 202
NoFrame == [qname |-> "", rows |-> <<>>]

Start == [op |-> "Start"]

SeedProvider ==
    [rowid |-> 1, Provider_ID |-> 1, Name |-> <<"a">>, Type |-> Restaurant,
     Address |-> "", City |-> "X", Contact |-> ""]

SeedFood ==
    [rowid |-> 1, Food_ID |-> 1, Food_Name |-> <<"f">>, Quantity |-> 1,
     Expiry_Date |-> 2, Provider_ID |-> 1, Provider_Type |-> Restaurant,
     Location |-> "X", Food_Type |-> "Vegan", Meal_Type |-> "Lunch"]

\* An empty food.db and one session: every run is uninterrupted
Init ==
    /\ Providers = {}
    /\ Receivers = {}
    /\ Food_Listings = {}
    /\ Claims = {}
    /\ schema \in Schemas
    /\ seq = SeqOf(schema, {}, {})
    /\ pc = [s \in {"s1"} |-> "idle"]
    /\ run = [s \in {"s1"} |-> NoRun]
    /\ cards = [s \in {"s1"} |-> NoCards]
    /\ filtered = [s \in {"s1"} |-> <<>>]
    /\ df_q = [s \in {"s1"} |-> NoFrame]
    /\ last = Start

\* A food.db holding one Provider and at most one listing, and two sessions
\* whose statements interleave on the shared connection
InitSessions ==
    /\ Providers = {SeedProvider}
    /\ Receivers = {}
    /\ Food_Listings \in {{}, {SeedFood}}
    /\ Claims = {}
    /\ schema \in Schemas
    /\ seq = SeqOf(schema, Providers, Food_Listings)
    /\ pc = [s \in Sessions |-> "idle"]
    /\ run = [s \in Sessions |-> NoRun]
    /\ cards = [s \in Sessions |-> NoCards]
    /\ filtered = [s \in Sessions |-> <<>>]
    /\ df_q = [s \in Sessions |-> NoFrame]
    /\ last = Start

\* The run ends: its script variables are gone, what it rendered stays
EndRun(s) ==
    /\ pc' = [pc EXCEPT ![s] = "idle"]
    /\ run' = [run EXCEPT ![s] = NoRun]

\* Line 28, the first statement of a rerun with this button clicked: the
\* data frames of the run are not computed yet
ReadCities(s, button) ==
    /\ pc[s] = "idle"
    /\ pc' = [pc EXCEPT ![s] = "ptypes"]
    /\ run' = [run EXCEPT ![s] = [NoRun EXCEPT !.button = button, !.cities = cities]]
    /\ cards' = [cards EXCEPT ![s] = NoCards]
    /\ filtered' = [filtered EXCEPT ![s] = <<>>]
    /\ df_q' = [df_q EXCEPT ![s] = NoFrame]
    /\ last' = [op |-> "ReadCities"]
    /\ UNCHANGED <<tables, schema, seq>>

\* Line 29
ReadProviderTypes(s) ==
    /\ pc[s] = "ptypes"
    /\ pc' = [pc EXCEPT ![s] = "ftypes"]
    /\ run' = [run EXCEPT ![s].provider_types = provider_types]
    /\ last' = [op |-> "ReadProviderTypes"]
    /\ UNCHANGED <<tables, schema, seq, frames>>

\* Line 30
ReadFoodTypes(s) ==
    /\ pc[s] = "ftypes"
    /\ pc' = [pc EXCEPT ![s] = "mtypes"]
    /\ run' = [run EXCEPT ![s].food_types = food_types]
    /\ last' = [op |-> "ReadFoodTypes"]
    /\ UNCHANGED <<tables, schema, seq, frames>>

\* Line 31
ReadMealTypes(s) ==
    /\ pc[s] = "mtypes"
    /\ pc' = [pc EXCEPT ![s] = "cards"]
    /\ run' = [run EXCEPT ![s].meal_types = meal_types]
    /\ last' = [op |-> "ReadMealTypes"]
    /\ UNCHANGED <<tables, schema, seq, frames>>

\* Lines 57-72: the overview counts, one SELECT of four COUNT(*)
Cards(s) ==
    /\ pc[s] = "cards"
    /\ pc' = [pc EXCEPT ![s] = "browse"]
    /\ cards' = [cards EXCEPT ![s] =
                    [providers |-> Cardinality(Providers),
                     receivers |-> Cardinality(Receivers),
                     food_items |-> Cardinality(Food_Listings),
                     claims |-> Cardinality(Claims)]]
    /\ last' = [op |-> "Cards"]
    /\ UNCHANGED <<tables, schema, seq, run, filtered, df_q>>
(***************************************************************************)
(* Sidebar filters and the filtered browse query (lines 33-55, 74-93).     *)
(***************************************************************************)
Range(q) == {q[i] : i \in 1..Len(q)}

\* st.multiselect: the selected options, each once, in the order selected
Selections(options) ==
    {q \in UNION {[1..n -> options] : n \in 0..Cardinality(options)} :
        \A i, j \in 1..Len(q) : i # j => q[i] # q[j]}

\* One `if xxx_filter:` block: a clause "column IN (?,...,?)" with one
\* placeholder per selected value, or nothing for an empty selection
Clause(column, selection) ==
    IF selection # <<>> THEN <<[column |-> column, n |-> Len(selection)]>>
    ELSE <<>>

where(city_filter, ptype_filter, ftype_filter, mtype_filter) ==
    Clause("P.City", city_filter) \o Clause("P.Type", ptype_filter)
        \o Clause("F.Food_Type", ftype_filter) \o Clause("F.Meal_Type", mtype_filter)

params(city_filter, ptype_filter, ftype_filter, mtype_filter) ==
    city_filter \o ptype_filter \o ftype_filter \o mtype_filter

ColumnValue(f, p, column) ==
    CASE column = "P.City" -> p.City
      [] column = "P.Type" -> p.Type
      [] column = "F.Food_Type" -> f.Food_Type
      [] column = "F.Meal_Type" -> f.Meal_Type

\* Number of placeholders before clause k: positional binding of the parameters
RECURSIVE Offset(_, _)
Offset(w, k) == IF k = 1 THEN 0 ELSE Offset(w, k - 1) + w[k - 1].n

\* The clauses joined with OR
WhereHoldsAny(w, ps, f, p) ==
    \E k \in 1..Len(w) :
        ColumnValue(f, p, w[k].column) \in
            {ps[Offset(w, k) + j] : j \in 1..w[k].n}

\* where_sql: "WHERE c1 AND c2 ..." or "" when there is no clause
WhereHolds(w, ps, f, p) ==
    \A k \in 1..Len(w) :
        ColumnValue(f, p, w[k].column) \in
            {ps[Offset(w, k) + j] : j \in 1..w[k].n}

\* The SELECT list of the browse query: Provider_Type and Location are the
\* Provider's Type and City
BrowseRow(f, p) ==
    [Food_ID |-> f.Food_ID, Food_Name |-> f.Food_Name, Quantity |-> f.Quantity,
     Expiry_Date |-> f.Expiry_Date, Provider_ID |-> f.Provider_ID,
     Provider_Name |-> p.Name, Provider_Type |-> p.Type, Location |-> p.City,
     Food_Type |-> f.Food_Type, Meal_Type |-> f.Meal_Type]

\* F JOIN P ON F.Provider_ID = P.Provider_ID: a NULL equals nothing
Joined ==
    {y \in Food_Listings \X Providers :
        y[1].Provider_ID # None /\ y[1].Provider_ID = y[2].Provider_ID}

\* FROM Food_Listings F JOIN Providers P ON ... {where_sql}: one result row
\* for each joined pair the WHERE keeps
BrowsePairs(w, ps) == {y \in Joined : WhereHolds(w, ps, y[1], y[2])}

\* ORDER BY F.Expiry_Date: every order of the pairs that ascends by
\* Expiry_Date (rows with equal dates come in any order)
OrderByExpiry(pairs) ==
    {q \in [1..Cardinality(pairs) -> pairs] :
        /\ \A i, j \in 1..Len(q) : i # j => q[i] # q[j]
        /\ \A i, j \in 1..Len(q) : i < j => q[i][1].Expiry_Date <= q[j][1].Expiry_Date}

\* Lines 33-55 and 74-93: the WHERE fragment is built from the selections
\* and the browse query is run
Browse(s, city_filter, ptype_filter, ftype_filter, mtype_filter) ==
    /\ pc[s] = "browse"
    /\ \E q \in OrderByExpiry(
                   BrowsePairs(where(city_filter, ptype_filter, ftype_filter, mtype_filter),
                               params(city_filter, ptype_filter, ftype_filter, mtype_filter))) :
          filtered' = [filtered EXCEPT ![s] =
                          [i \in 1..Len(q) |-> BrowseRow(q[i][1], q[i][2])]]
    /\ pc' = [pc EXCEPT ![s] = "report"]
    /\ run' = [run EXCEPT
                  ![s].provider_types =
                      IF run[s].button = "Add Provider" THEN @ ELSE {},
                  ![s].food_types = IF run[s].button = "Add Food" THEN @ ELSE {},
                  ![s].meal_types = IF run[s].button = "Add Food" THEN @ ELSE {}]
    /\ last' = [op |-> "Browse", s |-> s, city_filter |-> city_filter,
                ptype_filter |-> ptype_filter, ftype_filter |-> ftype_filter,
                mtype_filter |-> mtype_filter]
    /\ UNCHANGED <<tables, schema, seq, df_q, cards>>

(***************************************************************************)
(* Report catalog (lines 100-210): report 1 (the question selected by      *)
(* default), report 3, the provider contact lookup with its city           *)
(* parameter, and report 10, the claim status distribution.                *)
(***************************************************************************)
\* Python None bound as a parameter is SQL NULL
NoneCity == "<None>"

\* run_query(sql, params): `params or ()` is what is bound (line 17)
Bound(ps) == IF ps = <<>> THEN <<>> ELSE ps

\* Report 1: per City of a Provider, the distinct non-NULL Provider_IDs there
\* and the distinct non-NULL Receiver_IDs of the Receivers of that City.
\* ORDER BY P.City orders the rows by their own key: they are kept as a set.
Query1 ==
    {[City |-> c,
      Providers |-> Cardinality({p.Provider_ID : p \in {x \in Providers : x.City = c}}
                                   \ {None}),
      Receivers |-> Cardinality({r.Receiver_ID : r \in {x \in Receivers : x.City = c}}
                                   \ {None})] : c \in cities}

\* The SELECT list of report 3
ContactRow(p) == [Name |-> p.Name, Type |-> p.Type, City |-> p.City, Contact |-> p.Contact]

\* SELECT Name, Type, City, Contact FROM Providers WHERE City = ?
\* One placeholder: any other number of bound values raises
\* sqlite3.ProgrammingError and nothing is read.  `City = NULL` is true of no
\* row.  The query has no ORDER BY: the result is the bag of its rows.
Query3(ps) ==
    IF Len(ps) # 1
    THEN [executed |-> FALSE, error |-> "ProgrammingError", rows |-> EmptyBag]
    ELSE LET hit == {p \in Providers : ps[1] # NoneCity /\ p.City = ps[1]}
         IN  [executed |-> TRUE, error |-> "",
              rows |-> [r \in {ContactRow(p) : p \in hit} |->
                           Cardinality({p \in hit : ContactRow(p) = r})]]

\* st.selectbox("City (for Q3)", cities): a city of the list read at line 28,
\* or None when the list is empty
CityForQ3(cs) == IF cs = {} THEN {NoneCity} ELSE cs

\* extra_params left at its initial ()
ExtraParams3Unset(city_for_q3) == <<>>

\* Lines 197-200: extra_params = (city_for_q3,)
ExtraParams3(city_for_q3) == <<city_for_q3>>

StatusNames ==
    <<"Completed", "Pending", "Cancelled", "Expired", "Rejected", "Approved",
      "On Hold", "In Transit", "Returned", "Failed">>

\* The percentage cut to two decimals instead of rounded
PercentageTruncated(count, total) == (10000 * count) \div total

\* ROUND(100.0 * count / total, 2), in hundredths of a percent: the nearest
\* hundredth, a half rounding away from zero
Percentage(count, total) == (2 * 10000 * count + total) \div (2 * total)

StatusCount(status) == Cardinality({c \in Claims : c.Status = status})

\* GROUP BY Status
Groups == {c.Status : c \in Claims}

\* ORDER BY Percentage DESC: the rows by descending Percentage.  SQL leaves
\* the order of rows with equal Percentage open; they are kept together as
\* one set.
RECURSIVE ByPercentage(_)
ByPercentage(rows) ==
    IF rows = {} THEN <<>>
    ELSE LET top == Max({r.Percentage : r \in rows})
             first == {r \in rows : r.Percentage = top}
         IN  <<first>> \o ByPercentage(rows \ first)

Query10 ==
    ByPercentage({[Status |-> st,
                   Percentage |-> Percentage(StatusCount(st), Cardinality(Claims))] :
                      st \in Groups})

\* Where the run goes after line 210: tab1 issues a statement only when its
\* button is clicked
AfterReport(s) == IF run[s].button = "Add Provider" THEN "tab1" ELSE "tab2"

\* Lines 195-210 with this question selected and this result of run_query
Report(s, qname, rows, ev) ==
    /\ pc[s] = "report"
    /\ df_q' = [df_q EXCEPT ![s] = [qname |-> qname, rows |-> rows]]
    /\ pc' = [pc EXCEPT ![s] = AfterReport(s)]
    /\ run' = [run EXCEPT ![s].cities = {}]
    /\ last' = ev
    /\ UNCHANGED <<tables, schema, seq, filtered, cards>>

Report1(s) == Report(s, "1", Query1, [op |-> "Report1", s |-> s])

\* Report 3: an exception of run_query is not caught and ends the run
Report3(s, city_for_q3) ==
    LET extra_params == ExtraParams3(city_for_q3)
        res == Query3(Bound(extra_params))
        ev  == [op |-> "Report3", s |-> s, extra_params |-> extra_params,
                city_given |-> (city_for_q3 # NoneCity),
                executed |-> res.executed, error |-> res.error]
    IN  IF res.executed
        THEN Report(s, "3", res.rows, ev)
        ELSE /\ pc[s] = "report"
             /\ EndRun(s)
             /\ last' = ev
             /\ UNCHANGED <<tables, schema, seq, frames>>

Report10(s) == Report(s, "10", Query10, [op |-> "Report10", s |-> s])

(***************************************************************************)
(* crud_tab1: Add Provider (lines 219-234), reached with the button        *)
(* clicked.  p_type is an option of the list read at line 29.              *)
(***************************************************************************)
InsertProvider(p_name, p_type, p_addr, p_city, p_contact) ==
    Providers \cup {[rowid |-> NewRowId(Providers, "Providers"),
                     Provider_ID |-> NewId(Providers, "Providers"),
                     Name |-> p_name, Type |-> p_type, Address |-> p_addr,
                     City |-> p_city, Contact |-> p_contact]}

\* The required inputs of the submission that are empty (what the user sees
\* left blank in the form)
MissingProvider(p_name, p_type, p_city) ==
    {x \in {"Name"} : p_name = <<>>} \cup {x \in {"Type"} : p_type = <<>>}
        \cup {x \in {"City"} : p_city = ""}

\* `if p_name and p_type and p_city`
ProviderValid(p_name, p_type, p_city) ==
    p_name # <<>> /\ p_type # <<>> /\ p_city # ""

AddProvider(s, p_name, p_type, p_addr, p_city, p_contact) ==
    /\ pc[s] = "tab1"
    /\ IF ProviderValid(p_name, p_type, p_city)
       THEN /\ NewRowId(Providers, "Providers") <= MaxProviders
            /\ Providers' = InsertProvider(p_name, p_type, p_addr, p_city, p_contact)
            /\ seq' = NewSeq(Providers, "Providers")
            /\ last' = [op |-> "AddProvider", level |-> "success",
                        msg |-> "Provider added.",
                        missing |-> MissingProvider(p_name, p_type, p_city)]
       ELSE /\ UNCHANGED <<Providers, seq>>
            /\ last' = [op |-> "AddProvider", level |-> "error",
                        msg |-> "Name, Type, and City are required.",
                        missing |-> MissingProvider(p_name, p_type, p_city)]
    /\ pc' = [pc EXCEPT ![s] = "tab2"]
    /\ run' = [run EXCEPT ![s].provider_types = {}]
    /\ UNCHANGED <<Receivers, Food_Listings, Claims, schema, frames>>

(***************************************************************************)
(* crud_tab2: Add Food Listing (lines 236-265).  The Providers are read at *)
(* line 239 in every run; the identity and Type of the chosen Provider are *)
(* derived at lines 241-247 and used by the INSERT of line 258.            *)
(***************************************************************************)
MissingFood(selected, f_name, f_loc) ==
    {x \in {"Provider"} : selected = None} \cup {x \in {"Food_Name"} : f_name = <<>>}
        \cup {x \in {"Location"} : f_loc = ""}

\* Where the run goes after line 254
AfterTab2(s) == IF run[s].button = "Add Food" THEN "add" ELSE "tab3"

\* Lines 236-254.  An exception of lines 243-244 is not caught and ends the
\* run; in a run with Add Food clicked it is what the submission renders
\* (f_name and f_loc are the texts of the form at that time).
Tab2Read(s, f_name, f_loc) ==
    /\ pc[s] = "tab2"
    /\ IF Providers = {}
       THEN /\ pc' = [pc EXCEPT ![s] = AfterTab2(s)]
            /\ run' = [run EXCEPT ![s].selected = None, ![s].provider_id = None,
                                  ![s].provider_type = <<>>]
            /\ last' = [op |-> "Tab2Read"]
       ELSE \E p \in Providers :
               LET t2 == Tab2(p)
               IN  IF t2.raised
                   THEN /\ EndRun(s)
                        /\ last' =
                             IF run[s].button = "Add Food"
                             THEN [op |-> "AddFood", selected |-> p.Provider_ID,
                                   missing |-> MissingFood(p.Provider_ID, f_name, f_loc),
                                   level |-> "exception",
                                   msg |-> "ValueError/IndexError"]
                             ELSE [op |-> "Tab2Read", level |-> "exception"]
                   ELSE /\ pc' = [pc EXCEPT ![s] = AfterTab2(s)]
                        /\ run' = [run EXCEPT
                                      ![s].selected =
                                          IF run[s].button = "Add Food"
                                          THEN p.Provider_ID ELSE None,
                                      ![s].provider_id =
                                          IF run[s].button = "Add Food"
                                          THEN t2.provider_id ELSE None,
                                      ![s].provider_type =
                                          IF run[s].button = "Add Food"
                                          THEN t2.provider_type ELSE <<>>]
                        /\ last' = [op |-> "Tab2Read"]
    /\ UNCHANGED <<tables, schema, seq, frames>>

InsertFood(f_name, f_qty, f_exp, provider_id, provider_type, f_loc, f_food_type, f_meal) ==
    Food_Listings \cup {[rowid |-> NewRowId(Food_Listings, "Food_Listings"),
                         Food_ID |-> NewId(Food_Listings, "Food_Listings"),
                         Food_Name |-> f_name, Quantity |-> f_qty,
                         Expiry_Date |-> f_exp, Provider_ID |-> provider_id,
                         Provider_Type |-> provider_type, Location |-> f_loc,
                         Food_Type |-> f_food_type, Meal_Type |-> f_meal]}

\* `if provider_id and f_name and f_loc`: None and 0 are falsy
FoodValid(provider_id, f_name, f_loc) ==
    provider_id # None /\ provider_id # 0 /\ f_name # <<>> /\ f_loc # ""

\* Lines 256-265 with the button clicked
AddFood(s, f_name, f_qty, f_exp, f_loc, f_food_type, f_meal) ==
    LET ev == [op |-> "AddFood", selected |-> run[s].selected,
               missing |-> MissingFood(run[s].selected, f_name, f_loc)]
    IN
    /\ pc[s] = "add"
    /\ IF FoodValid(run[s].provider_id, f_name, f_loc)
       THEN /\ NewRowId(Food_Listings, "Food_Listings") <= MaxFoods
            /\ Food_Listings' = InsertFood(f_name, f_qty, f_exp, run[s].provider_id,
                                           run[s].provider_type, f_loc,
                                           f_food_type, f_meal)
            /\ seq' = NewSeq(Food_Listings, "Food_Listings")
            /\ last' = ev @@ [level |-> "success", msg |-> "Food listing added."]
       ELSE /\ UNCHANGED <<Food_Listings, seq>>
            /\ last' = ev @@ [level |-> "error",
                              msg |-> "Provider, Food Name, and Location are required."]
    /\ pc' = [pc EXCEPT ![s] = "tab3"]
    /\ run' = [run EXCEPT ![s].selected = None, ![s].provider_id = None,
                          ![s].provider_type = <<>>, ![s].food_types = {},
                          ![s].meal_types = {}]
    /\ UNCHANGED <<Providers, Receivers, Claims, schema, frames>>

(***************************************************************************)
(* crud_tab3: Update Food Quantity (lines 267-278).  The listings are read *)
(* at line 269 in every run and the identity of the chosen one is parsed   *)
(* at line 274; the UPDATE is issued at line 277.                          *)
(***************************************************************************)
AfterTab3(s) == IF run[s].button = "Update Quantity" THEN "update" ELSE "tab4"

Tab3Read(s) ==
    /\ pc[s] = "tab3"
    /\ IF Food_Listings = {}
       THEN /\ pc' = [pc EXCEPT ![s] = "tab4"]
            /\ run' = run
            /\ last' = [op |-> "Tab3Read"]
       ELSE \E r \in Food_Listings :
               LET parsed == ParseFoodId(FoodLabel(r))
               IN  IF parsed.raised
                   THEN /\ EndRun(s)
                        /\ last' = [op |-> "Tab3Read", level |-> "exception"]
                   ELSE /\ pc' = [pc EXCEPT ![s] = AfterTab3(s)]
                        /\ run' = [run EXCEPT ![s].food_id =
                                      IF run[s].button = "Update Quantity"
                                      THEN parsed.val ELSE 0]
                        /\ last' = [op |-> "Tab3Read"]
    /\ UNCHANGED <<tables, schema, seq, frames>>

\* cursor.rowcount of a statement with WHERE Food_ID = ?: the rows it matched.
\* run_execute does not read it.
RowCount(fid) == Cardinality({f \in Food_Listings : f.Food_ID = fid})

\* The UPDATE without its WHERE clause
UpdateQuantityNoWhere(new_qty, fid) ==
    {[f EXCEPT !.Quantity = new_qty] : f \in Food_Listings}

\* UPDATE Food_Listings SET Quantity = ? WHERE Food_ID = ?
UpdateQuantity(new_qty, fid) ==
    {IF f.Food_ID = fid THEN [f EXCEPT !.Quantity = new_qty] ELSE f :
        f \in Food_Listings}

UpdateFood(s, new_qty) ==
    /\ pc[s] = "update"
    /\ Food_Listings' = UpdateQuantity(new_qty, run[s].food_id)
    /\ pc' = [pc EXCEPT ![s] = "tab4"]
    /\ run' = [run EXCEPT ![s].food_id = 0]
    /\ last' = [op |-> "UpdateFood", level |-> "success",
                msg |-> "Quantity updated.", food_id |-> run[s].food_id,
                new_qty |-> new_qty, rowcount |-> RowCount(run[s].food_id)]
    /\ UNCHANGED <<Providers, Receivers, Claims, schema, seq, frames>>

(***************************************************************************)
(* crud_tab4: Delete Food Listing (lines 280-290), read at line 282 and    *)
(* DELETE at line 289.  The run ends after this tab.                       *)
(***************************************************************************)
Tab4Read(s) ==
    /\ pc[s] = "tab4"
    /\ IF Food_Listings = {}
       THEN /\ EndRun(s)
            /\ last' = [op |-> "Tab4Read"]
       ELSE \E r \in Food_Listings :
               LET parsed == ParseFoodId(FoodLabel2(r))
               IN  IF parsed.raised
                   THEN /\ EndRun(s)
                        /\ last' = [op |-> "Tab4Read", level |-> "exception"]
                   ELSE IF run[s].button = "Delete"
                   THEN /\ pc' = [pc EXCEPT ![s] = "delete"]
                        /\ run' = [run EXCEPT ![s].food_id = parsed.val]
                        /\ last' = [op |-> "Tab4Read"]
                   ELSE /\ EndRun(s)
                        /\ last' = [op |-> "Tab4Read"]
    /\ UNCHANGED <<tables, schema, seq, frames>>

\* The DELETE without its WHERE clause
DeleteRowNoWhere(fid) == {}

\* The DELETE with WHERE Food_ID <> ?
DeleteRowOthers(fid) == {f \in Food_Listings : f.Food_ID = fid}

\* DELETE FROM Food_Listings WHERE Food_ID = ?
DeleteRow(fid) == {f \in Food_Listings : f.Food_ID # fid}

DeleteFood(s) ==
    /\ pc[s] = "delete"
    /\ Food_Listings' = DeleteRow(run[s].food_id)
    /\ EndRun(s)
    /\ last' = [op |-> "DeleteFood", level |-> "success",
                msg |-> "Food listing deleted.", food_id |-> run[s].food_id,
                rowcount |-> RowCount(run[s].food_id)]
    /\ UNCHANGED <<Providers, Receivers, Claims, schema, seq, frames>>

(***************************************************************************)
(* The statements with their inputs, and the specifications.               *)
(***************************************************************************)
\* A rerun with any button clicked, or none
ReadCitiesStep == \E s \in DOMAIN pc, button \in Buttons : ReadCities(s, button)

\* Reruns with a Food_Listings button clicked: the first session adds, updates
\* and deletes listings, the second deletes them under it
ReadCitiesFoodStep ==
    \/ \E button \in {"Add Food", "Update Quantity", "Delete"} :
          ReadCities("s1", button)
    \/ ReadCities("s2", "Delete")

\* A rerun with no button clicked
ReadCitiesViewStep == \E s \in DOMAIN pc : ReadCities(s, "none")

ReadProviderTypesStep == \E s \in DOMAIN pc : ReadProviderTypes(s)

ReadFoodTypesStep == \E s \in DOMAIN pc : ReadFoodTypes(s)

ReadMealTypesStep == \E s \in DOMAIN pc : ReadMealTypes(s)

CardsStep == \E s \in DOMAIN pc : Cards(s)

\* The browse query with any selection of the options read at lines 28-31
BrowseStep ==
    \E s \in DOMAIN pc :
       \E city_filter \in Selections(run[s].cities),
          ptype_filter \in Selections(run[s].provider_types),
          ftype_filter \in Selections(run[s].food_types),
          mtype_filter \in Selections(run[s].meal_types) :
          Browse(s, city_filter, ptype_filter, ftype_filter, mtype_filter)

\* The browse query with the multiselects left empty, as they start
BrowseAllStep == \E s \in DOMAIN pc : Browse(s, <<>>, <<>>, <<>>, <<>>)

Report1Step == \E s \in DOMAIN pc : Report1(s)

Report3Step ==
    \E s \in DOMAIN pc : \E city_for_q3 \in CityForQ3(run[s].cities) :
       Report3(s, city_for_q3)

Report10Step == \E s \in DOMAIN pc : Report10(s)

AddProviderStep ==
    \E s \in DOMAIN pc, p_name \in NameInputs, p_city \in CityInputs,
       p_addr \in AddressInputs, p_contact \in ContactInputs :
       \E p_type \in Pick(run[s].provider_types, DefaultProviderTypes[1]) :
          AddProvider(s, p_name, p_type, p_addr, p_city, p_contact)

Tab2ReadStep ==
    \E s \in DOMAIN pc, f_name \in FoodNameInputs, f_loc \in LocationInputs :
       Tab2Read(s, f_name, f_loc)

AddFoodStep ==
    \E s \in DOMAIN pc, f_name \in FoodNameInputs, f_qty \in QtyInputs,
       f_exp \in DateInputs, f_loc \in LocationInputs :
       \E f_food_type \in Pick(run[s].food_types, DefaultFoodTypes[1]),
          f_meal \in Pick(run[s].meal_types, DefaultMealTypes[1]) :
          AddFood(s, f_name, f_qty, f_exp, f_loc, f_food_type, f_meal)

Tab3ReadStep == \E s \in DOMAIN pc : Tab3Read(s)

UpdateFoodStep == \E s \in DOMAIN pc, new_qty \in NewQtyInputs : UpdateFood(s, new_qty)

Tab4ReadStep == \E s \in DOMAIN pc : Tab4Read(s)

DeleteFoodStep == \E s \in DOMAIN pc : DeleteFood(s)

\* One session, every button, on a store that starts empty
Next ==
    \/ ReadCitiesStep
    \/ ReadProviderTypesStep
    \/ ReadFoodTypesStep
    \/ ReadMealTypesStep
    \/ CardsStep
    \/ BrowseAllStep
    \/ Report1Step
    \/ AddProviderStep
    \/ Tab2ReadStep
    \/ AddFoodStep
    \/ Tab3ReadStep
    \/ UpdateFoodStep
    \/ Tab4ReadStep
    \/ DeleteFoodStep

Spec == Init /\ [][Next]_vars

\* Two sessions writing Food_Listings
NextSessions ==
    \/ ReadCitiesFoodStep
    \/ ReadProviderTypesStep
    \/ ReadFoodTypesStep
    \/ ReadMealTypesStep
    \/ CardsStep
    \/ BrowseAllStep
    \/ Report1Step
    \/ Tab2ReadStep
    \/ AddFoodStep
    \/ Tab3ReadStep
    \/ UpdateFoodStep
    \/ Tab4ReadStep
    \/ DeleteFoodStep

SpecSessions == InitSessions /\ [][NextSessions]_vars

\* Stores drawn for the browse view and the reports: any part of these rows.
\* A listing whose Provider is absent is a row the JOIN drops.
ProviderPool ==
    {[rowid |-> 1, Provider_ID |-> 1, Name |-> <<"a">>, Type |-> Restaurant,
      Address |-> "", City |-> "X", Contact |-> ""],
     [rowid |-> 2, Provider_ID |-> 2, Name |-> <<"b">>, Type |-> Supermarket,
      Address |-> "", City |-> "Y", Contact |-> ""]}

FoodPool ==
    {[rowid |-> 1, Food_ID |-> 1, Food_Name |-> <<"f">>, Quantity |-> 1,
      Expiry_Date |-> 2, Provider_ID |-> 1, Provider_Type |-> Restaurant,
      Location |-> "X", Food_Type |-> "Vegetarian", Meal_Type |-> "Lunch"],
     [rowid |-> 2, Food_ID |-> 2, Food_Name |-> <<"g">>, Quantity |-> 0,
      Expiry_Date |-> 1, Provider_ID |-> 2, Provider_Type |-> Supermarket,
      Location |-> "X", Food_Type |-> "Vegan", Meal_Type |-> "Lunch"],
     [rowid |-> 3, Food_ID |-> 3, Food_Name |-> <<"h">>, Quantity |-> 5,
      Expiry_Date |-> 1, Provider_ID |-> 1, Provider_Type |-> Restaurant,
      Location |-> "Y", Food_Type |-> "Vegetarian", Meal_Type |-> "Dinner"]}

InitBrowse ==
    /\ Providers \in SUBSET ProviderPool
    /\ Receivers = {}
    /\ Food_Listings \in SUBSET FoodPool
    /\ Claims = {}
    /\ schema = "rowid"
    /\ seq = SeqOf(schema, Providers, Food_Listings)
    /\ pc = [s \in {"s1"} |-> "idle"]
    /\ run = [s \in {"s1"} |-> NoRun]
    /\ cards = [s \in {"s1"} |-> NoCards]
    /\ filtered = [s \in {"s1"} |-> <<>>]
    /\ df_q = [s \in {"s1"} |-> NoFrame]
    /\ last = Start

\* Reruns with no button clicked and any selection in the sidebar
NextBrowse ==
    \/ ReadCitiesViewStep
    \/ ReadProviderTypesStep
    \/ ReadFoodTypesStep
    \/ ReadMealTypesStep
    \/ CardsStep
    \/ BrowseStep
    \/ Report1Step
    \/ Tab2ReadStep
    \/ Tab3ReadStep
    \/ Tab4ReadStep

SpecBrowse == InitBrowse /\ [][NextBrowse]_vars

\* Claims tables drawn for the reports: count[i] rows of status StatusNames[i]
ClaimsOf(count) ==
    {[Claim_ID |-> (x[1] - 1) * MaxPerStatus + x[2], Food_ID |-> 1,
      Receiver_ID |-> 1, Status |-> StatusNames[x[1]]] :
        x \in {y \in (1..NumStatus) \X (1..MaxPerStatus) : y[2] <= count[y[1]]}}

InitReport ==
    /\ Providers \in SUBSET ProviderPool
    /\ Receivers = {}
    /\ Food_Listings = {}
    /\ \E count \in [1..NumStatus -> 0..MaxPerStatus] : Claims = ClaimsOf(count)
    /\ schema = "rowid"
    /\ seq = SeqOf(schema, Providers, Food_Listings)
    /\ pc = [s \in {"s1"} |-> "idle"]
    /\ run = [s \in {"s1"} |-> NoRun]
    /\ cards = [s \in {"s1"} |-> NoCards]
    /\ filtered = [s \in {"s1"} |-> <<>>]
    /\ df_q = [s \in {"s1"} |-> NoFrame]
    /\ last = Start

\* Reruns with no button clicked and report 3 or report 10 selected
NextReport ==
    \/ ReadCitiesViewStep
    \/ ReadProviderTypesStep
    \/ ReadFoodTypesStep
    \/ ReadMealTypesStep
    \/ CardsStep
    \/ BrowseAllStep
    \/ Report3Step
    \/ Report10Step
    \/ Tab2ReadStep
    \/ Tab3ReadStep
    \/ Tab4ReadStep

SpecReport == InitReport /\ [][NextReport]_vars

(***************************************************************************)
(* Properties.                                                             *)
(***************************************************************************)
InSelection(v, selection) == selection = <<>> \/ v \in Range(selection)

\* The statements that only read the store
ReadOps == {"ReadCities", "ReadProviderTypes", "ReadFoodTypes", "ReadMealTypes",
            "Cards", "Browse", "Report1", "Report3", "Report10",
            "Tab2Read", "Tab3Read", "Tab4Read"}

\* C1: the filtered browse result is exactly the Food_Listing-joined-with-
\* Provider rows that, for every facet with a non-empty selection, have the
\* facet's value among the selected ones (AND across facets, OR within one);
\* a facet with an empty selection constrains nothing.
C1_FilteredIsFacetConjunction ==
    last.op = "Browse" =>
        LET expected ==
                {y \in Food_Listings \X Providers :
                    /\ y[1].Provider_ID # None
                    /\ y[1].Provider_ID = y[2].Provider_ID
                    /\ InSelection(y[2].City, last.city_filter)
                    /\ InSelection(y[2].Type, last.ptype_filter)
                    /\ InSelection(y[1].Food_Type, last.ftype_filter)
                    /\ InSelection(y[1].Meal_Type, last.mtype_filter)}
        IN  /\ Range(filtered[last.s]) = {BrowseRow(y[1], y[2]) : y \in expected}
            /\ Len(filtered[last.s]) = Cardinality(expected)

\* A browse with one city selected, two meal types selected and no food type
\* selected, which keeps some joined rows and drops others.
C1_Witness ==
    /\ last.op = "Browse"
    /\ Len(last.city_filter) = 1
    /\ Len(last.mtype_filter) = 2
    /\ last.ftype_filter = <<>>
    /\ Len(filtered[last.s]) = 1
    /\ Cardinality(Food_Listings) = 3
    /\ Cardinality(Providers) = 2

\* C2: an Add Provider or Add Food Listing submission with a required field
\* missing reports the validation error and writes to none of the four tables.
C2_MissingFieldNoWrite ==
    [][(last'.op \in {"AddProvider", "AddFood"} /\ last'.missing # {})
          => (last'.level = "error" /\ tables' = tables)]_vars

\* C3: Add Food Listing with a selected existing Provider and non-empty
\* Food_Name and Location inserts exactly one row, whose Provider_ID is the
\* selected Provider's identity and whose Provider_Type is that Provider's Type.
C3_AddFoodInsertsSelected ==
    [][(last'.op = "AddFood" /\ last'.missing = {})
          => \E r \in Food_Listings' :
                /\ r \notin Food_Listings
                /\ Food_Listings' = Food_Listings \cup {r}
                /\ r.Provider_ID = last'.selected
                /\ \E p \in Providers :
                      p.Provider_ID = last'.selected /\ r.Provider_Type = p.Type
                /\ UNCHANGED <<Providers, Receivers, Claims>>]_vars

\* C4: an UPDATE issued for a Food_ID that is in the store sets that listing's
\* Quantity to the new value and changes no other field, no other listing and
\* no other table; the statements that only read leave the store as it is.
C4_UpdateSetsQuantityOnly ==
    [][/\ \A s \in DOMAIN pc :
             (pc[s] = "update" /\ pc'[s] = "tab4" /\ run[s].food_id \in FoodIds) =>
                 /\ \A f \in Food_Listings :
                       IF f.Food_ID = run[s].food_id
                       THEN [f EXCEPT !.Quantity = last'.new_qty] \in Food_Listings'
                       ELSE f \in Food_Listings'
                 /\ Cardinality(Food_Listings') = Cardinality(Food_Listings)
                 /\ \A g \in Food_Listings' :
                       g.Food_ID = run[s].food_id => g.Quantity = last'.new_qty
                 /\ UNCHANGED <<Providers, Receivers, Claims>>
       /\ last'.op \in ReadOps => tables' = tables]_vars

\* Two listings, of which the last statement updated exactly one to 0.
C4_Witness ==
    /\ last.op = "UpdateFood"
    /\ last.rowcount = 1
    /\ last.new_qty = 0
    /\ \E f, g \in Food_Listings :
          f.Food_ID = last.food_id /\ f.Quantity = 0 /\ g.Quantity = 1

\* C5: a DELETE issued for a Food_ID that is in the store removes exactly that
\* listing: one row fewer, the Food_ID gone, every other listing as it was.
C5_DeleteRemovesOneRow ==
    [][\A s \in DOMAIN pc :
          (pc[s] = "delete" /\ pc'[s] = "idle" /\ run[s].food_id \in FoodIds) =>
              /\ Food_Listings' = {f \in Food_Listings : f.Food_ID # run[s].food_id}
              /\ Cardinality(Food_Listings') = Cardinality(Food_Listings) - 1
              /\ \A f \in Food_Listings' : f.Food_ID # run[s].food_id
              /\ UNCHANGED <<Providers, Receivers, Claims>>]_vars

\* One listing was deleted while another stayed.
C5_Witness ==
    /\ last.op = "DeleteFood"
    /\ last.rowcount = 1
    /\ Food_Listings # {}
    /\ last.food_id \notin FoodIds

\* C6: an UPDATE or DELETE issued for a Food_ID that is not in the store any
\* more changes no row of any table and is reported as success.
C6_MissingIdIsSilentNoOp ==
    [][\A s \in DOMAIN pc :
          (pc[s] \in {"update", "delete"} /\ pc'[s] # pc[s]
             /\ run[s].food_id \notin FoodIds) =>
              /\ tables' = tables
              /\ last'.level = "success"]_vars

\* A statement that matched no row, its listing having been deleted by the
\* other session, while another listing is in the store.
C6_Witness ==
    /\ last.op \in {"UpdateFood", "DeleteFood"}
    /\ last.rowcount = 0
    /\ last.level = "success"
    /\ Food_Listings # {}

\* C7: every listing has Quantity >= 0 in every reachable state, and a row
\* inserted by Add Food Listing has Quantity >= 1.
C7_QuantityNonNegative ==
    /\ [](\A f \in Food_Listings : f.Quantity >= 0)
    /\ [][last'.op = "AddFood" =>
             \A r \in Food_Listings' \ Food_Listings : r.Quantity >= 1]_vars

\* A listing driven to the boundary 0 by an update, next to one just inserted.
C7_Witness ==
    /\ \E f \in Food_Listings : f.Quantity = 0
    /\ \E f \in Food_Listings : f.Quantity = 1
    /\ last.op = "AddFood"
    /\ last.level = "success"

\* C10: every listing's Provider_ID names a Provider of the store in every
\* reachable state, and no step removes or changes a Provider row.
C10_ListingsReferenceProviders ==
    /\ [](\A f \in Food_Listings : f.Provider_ID \in ProviderIds)
    /\ [][Providers \subseteq Providers']_vars

\* A listing inserted under an identity other than the selected Provider's,
\* which is still a Provider of the store.
C10_Witness ==
    /\ last.op = "AddFood"
    /\ last.level = "success"
    /\ \E f \in Food_Listings : f.Provider_ID # last.selected
    /\ Cardinality(Food_Listings) = 1

\* C8: report 3 is not run against the store when no city value is supplied.
C8_NoCityNoQuery == (last.op = "Report3" /\ ~last.city_given) => ~last.executed

\* C8 as the code has it: report 3 always runs with exactly one bound value;
\* with an empty city list that value is None (NULL), the query raises nothing
\* and returns no row; with a city, it returns that city's Providers.
C8_Report3AlwaysRunsWithOneParameter ==
    last.op = "Report3" =>
        /\ Len(last.extra_params) = 1
        /\ last.executed
        /\ last.error = ""
        /\ df_q[last.s].qname = "3"
        /\ cities = {} => (last.extra_params = <<NoneCity>>
                             /\ df_q[last.s].rows = EmptyBag)
        /\ BagCardinality(df_q[last.s].rows) =
               Cardinality({p \in Providers : p.City = last.extra_params[1]})
        /\ \A r \in BagToSet(df_q[last.s].rows) : r.City = last.extra_params[1]

\* Report 3 run on a store with no Provider.
C8_Witness ==
    /\ last.op = "Report3"
    /\ Providers = {}
    /\ last.executed
    /\ ~last.city_given

\* Number of rows of a report 10 result, and the sum of their Percentage
RECURSIVE RowsOf10(_)
RowsOf10(q) == IF q = <<>> THEN 0 ELSE Cardinality(Head(q)) + RowsOf10(Tail(q))

RECURSIVE SumPercentage(_)
SumPercentage(q) ==
    IF q = <<>> THEN 0
    ELSE Cardinality(Head(q)) * (CHOOSE x \in {r.Percentage : r \in Head(q)} : TRUE)
             + SumPercentage(Tail(q))

Abs(x) == IF x < 0 THEN -x ELSE x

\* C9: for a non-empty Claims table the percentages of report 10 sum to 100
\* within 0.02 (2 hundredths), whatever the number of status groups.
C9_SumWithinTwoHundredths ==
    (last.op = "Report10" /\ Claims # {}) =>
        Abs(SumPercentage(df_q[last.s].rows) - 10000) <= 2

\* C9 as the code has it: report 10 returns one row per status group, the
\* sum is within 0.005 per group of 100 (half a hundredth for each of the N
\* rounded values), and so within 0.02 of 100 for up to five groups.
C9_SumWithinHalfHundredthPerGroup ==
    (last.op = "Report10" /\ Claims # {}) =>
        /\ RowsOf10(df_q[last.s].rows) = Cardinality(Groups)
        /\ 2 * Abs(SumPercentage(df_q[last.s].rows) - 10000)
               <= RowsOf10(df_q[last.s].rows)
        /\ RowsOf10(df_q[last.s].rows) <= 5 =>
               Abs(SumPercentage(df_q[last.s].rows) - 10000) <= 2

\* Report 10 over seven status groups whose percentages sum to 100.03.
C9_Witness ==
    /\ last.op = "Report10"
    /\ RowsOf10(df_q[last.s].rows) = 7
    /\ SumPercentage(df_q[last.s].rows) = 10003

====
